---- MODULE Spec2Model ----
(***************************************************************************)
(* EKF localization with known correspondences (EKF_localization.cpp).     *)
(*                                                                         *)
(* Numbers.  A C++ double is modelled as a fixed-point number: the integer *)
(* n stands for the real n / SC.  One unit is 1e-4, the value of EPS in    *)
(* update().  Products and quotients are rounded to the nearest unit, as   *)
(* floating point rounds to the nearest double.  The result of 0/0 and of  *)
(* the root of a negative number is the value NaN; it propagates through   *)
(* every operation and makes every comparison false, as in IEEE 754.  The  *)
(* constant M_PI stands for pi.                                            *)
(*                                                                         *)
(* Matrices are tuples of rows, indexed from 1 (the code indexes from 0).  *)
(***************************************************************************)
EXTENDS Integers, Sequences, FiniteSets, TLC

VARIABLES
    m_mu,       \* EKF_localization::m_mu, the stored mean (x, y, heading)
    m_cov,      \* EKF_localization::m_cov, the stored 3x3 covariance
    m_dt,       \* EKF_localization::m_dt
    pc,         \* "idle", or "loop" while update() is at its landmark loop
    frame,      \* update(): its arguments v, w, landmarks, dt, its working
                \* MU and COV, and the position k of its landmark loop
    op,         \* the operation called last
    old_mu,     \* m_mu when that operation was called
    old_cov,    \* m_cov when that operation was called
    calls,      \* number of operations called so far
    arg,        \* argument of a function applied on its own
    ret         \* its results

vars == <<m_mu, m_cov, m_dt, pc, frame, op, old_mu, old_cov, calls, arg, ret>>

\* ------------------------------------------------------------------------
\* double arithmetic
\* ------------------------------------------------------------------------
SC == 10000

NaN == -2000000000

IsNaN(a) == a = NaN

Abs(a) == IF a < 0 THEN -a ELSE a

Sgn(a) == IF a < 0 THEN -1 ELSE 1

Max(a, b) == IF a > b THEN a ELSE b

Neg(a) == IF IsNaN(a) THEN NaN ELSE -a

Add(a, b) == IF IsNaN(a) \/ IsNaN(b) THEN NaN ELSE a + b

Sub(a, b) == IF IsNaN(a) \/ IsNaN(b) THEN NaN ELSE a - b

\* fabs()
Fabs(a) == IF IsNaN(a) THEN NaN ELSE Abs(a)

\* a > b on doubles: false when either side is NaN
Gt(a, b) == ~IsNaN(a) /\ ~IsNaN(b) /\ a > b

\* a < b on doubles: false when either side is NaN
Lt(a, b) == ~IsNaN(a) /\ ~IsNaN(b) /\ a < b

\* |a| * |b| / SC rounded to nearest, computed in parts so that no
\* intermediate value is larger than the result times SC
MulAbs(a, b) ==
    LET ah == a \div SC
        al == a % SC
        bh == b \div SC
        bl == b % SC
    IN  ah * bh * SC + ah * bl + al * bh + (al * bl + SC \div 2) \div SC

\* a * b
Mul(a, b) ==
    IF IsNaN(a) \/ IsNaN(b) THEN NaN
    ELSE Sgn(a) * Sgn(b) * MulAbs(Abs(a), Abs(b))

\* one step of long division: the pair <<quotient so far, remainder>>
\* becomes the pair with one more decimal digit
Digit(qr, b) == <<10 * qr[1] + (10 * qr[2]) \div b, (10 * qr[2]) % b>>

\* the quotient qr[1] rounded up when the remainder is at least half of b
Rounded(qr, b) == IF 2 * qr[2] >= b THEN qr[1] + 1 ELSE qr[1]

\* |a| / |b| for b > 0, rounded to nearest.  A divisor above 1e4 (1e8 units)
\* is first rounded to its leading digits, as a double holds only the
\* leading digits of a number.
DivAbs(a, b) ==
    IF b < 100000000
    THEN Rounded(Digit(Digit(Digit(Digit(<<a \div b, a % b>>, b), b), b), b), b)
    ELSE LET c == (b + 50) \div 100
         IN  Rounded(Digit(Digit(<<a \div c, a % c>>, c), c), c)

\* a / b; 0/0 is NaN.  (x/0 with x # 0 is an infinity in IEEE 754; the
\* invariant NoInfinity below states that no modelled run divides a
\* non-zero number by zero, so the infinities need no value of their own.)
Div(a, b) ==
    IF IsNaN(a) \/ IsNaN(b) \/ b = 0 THEN NaN
    ELSE Sgn(a) * Sgn(b) * DivAbs(Abs(a), Abs(b))

\* pow(a, 2)
Sq(a) == Mul(a, a)

\* one step of the binary square root of n: the bit is added to the root r
\* when the square stays at most n
Bit(n, r, bit) ==
    IF r + bit <= 46340 /\ (r + bit) * (r + bit) <= n THEN r + bit ELSE r

\* floor of the square root of the integer n >= 0, bit by bit
ISqrt(n) ==
    Bit(n, Bit(n, Bit(n, Bit(n, Bit(n, Bit(n, Bit(n, Bit(n,
    Bit(n, Bit(n, Bit(n, Bit(n, Bit(n, Bit(n, Bit(n, Bit(n, 0,
        32768), 16384), 8192), 4096), 2048), 1024), 512), 256),
        128), 64), 32), 16), 8), 4), 2), 1)

\* sqrt(a); NaN for a negative argument.  Large arguments are scaled down
\* before the integer root is taken, so the precision is relative, as it is
\* for doubles.
Sqrt(a) ==
    IF IsNaN(a) \/ a < 0 THEN NaN
    ELSE IF a <= 200000 THEN ISqrt(a * SC)
    ELSE 100 * ISqrt(a)

\* sqrt(a*a + b*b); 0 exactly when a = b = 0
Hypot(a, b) ==
    IF IsNaN(a) \/ IsNaN(b) THEN NaN
    ELSE LET m == Max(Abs(a), Abs(b))
         IN  IF m <= 30000 THEN ISqrt(a * a + b * b)
             ELSE IF m <= 3000000
                  THEN 100 * ISqrt((a \div 100) * (a \div 100) + (b \div 100) * (b \div 100))
             ELSE SC * ISqrt((a \div SC) * (a \div SC) + (b \div SC) * (b \div SC))

\* ------------------------------------------------------------------------
\* <cmath>
\* ------------------------------------------------------------------------
M_PI == 31416

HALF_PI == M_PI \div 2

TWO_PI == 2 * M_PI

\* the argument reduced to [-pi, pi)
Reduce(a) == ((a + M_PI) % TWO_PI) - M_PI

\* Taylor polynomial of cos on [0, pi/2]
CosT(y) ==
    LET y2 == Mul(y, y)
        t4 == SC - y2 \div 56
        t3 == SC - Mul(y2, t4) \div 30
        t2 == SC - Mul(y2, t3) \div 12
    IN  SC - Mul(y2, t2) \div 2

\* Taylor polynomial of sin on [0, pi/2]
SinT(y) ==
    LET y2 == Mul(y, y)
        t4 == SC - y2 \div 72
        t3 == SC - Mul(y2, t4) \div 42
        t2 == SC - Mul(y2, t3) \div 20
        t1 == SC - Mul(y2, t2) \div 6
    IN  Mul(y, t1)

\* cos(a)
Cos(a) ==
    IF IsNaN(a) THEN NaN
    ELSE LET r == Abs(Reduce(a))
         IN  IF r > HALF_PI THEN -CosT(M_PI - r) ELSE CosT(r)

\* sin(a)
Sin(a) ==
    IF IsNaN(a) THEN NaN
    ELSE LET r == Reduce(a)
             y == Abs(r)
         IN  Sgn(r) * (IF y > HALF_PI THEN SinT(M_PI - y) ELSE SinT(y))

\* Taylor polynomial of atan on [-tan(pi/8), tan(pi/8)]
AtanT(t) ==
    LET t2 == Mul(t, t)
        p4 == SC \div 7 - Mul(t2, SC \div 9)
        p3 == SC \div 5 - Mul(t2, p4)
        p2 == SC \div 3 - Mul(t2, p3)
        p1 == SC - Mul(t2, p2)
    IN  Mul(t, p1)

\* atan(z) for 0 <= z <= 1
Atan01(z) ==
    IF z > 4142 THEN M_PI \div 4 + AtanT(Div(z - SC, z + SC)) ELSE AtanT(z)

\* atan2(y, x) from the angle q of (|x|, |y|) in the first quadrant
Quadrant(y, x, q) ==
    IF x < 0 THEN (IF y < 0 THEN q - M_PI ELSE M_PI - q)
    ELSE (IF y < 0 THEN -q ELSE q)

\* atan2(y, x); atan2(0, 0) = 0
Atan2(y, x) ==
    IF IsNaN(y) \/ IsNaN(x) THEN NaN
    ELSE IF x = 0 /\ y = 0 THEN 0
    ELSE IF Abs(y) <= Abs(x)
         THEN Quadrant(y, x, Atan01(Div(Abs(y), Abs(x))))
         ELSE Quadrant(y, x, HALF_PI - Atan01(Div(Abs(x), Abs(y))))

\* ------------------------------------------------------------------------
\* Eigen fixed-size matrices
\* ------------------------------------------------------------------------
Rows(A) == Len(A)

Cols(A) == Len(A[1])

\* the function f on 1..n as a tuple
Tuple(f) == <<>> \o f

\* sum over k of A(i,k) * B(k,j), k = 1..n, for n up to 3
Dot(A, i, B, j, n) ==
    LET d1 == Mul(A[i][1], B[1][j])
        d2 == Add(d1, Mul(A[i][2], B[2][j]))
    IN  IF n = 1 THEN d1
        ELSE IF n = 2 THEN d2
        ELSE Add(d2, Mul(A[i][3], B[3][j]))

\* A * B
MatMul(A, B) ==
    Tuple([i \in 1..Rows(A) |->
              Tuple([j \in 1..Cols(B) |-> Dot(A, i, B, j, Rows(B))])])

\* A.transpose()
Transpose(A) ==
    Tuple([j \in 1..Cols(A) |-> Tuple([i \in 1..Rows(A) |-> A[i][j]])])

\* A + B
MatAdd(A, B) ==
    Tuple([i \in 1..Rows(A) |->
              Tuple([j \in 1..Cols(A) |-> Add(A[i][j], B[i][j])])])

\* A - B
MatSub(A, B) ==
    Tuple([i \in 1..Rows(A) |->
              Tuple([j \in 1..Cols(A) |-> Sub(A[i][j], B[i][j])])])

\* setZero() on a 3x3 matrix
Zero3 == <<<<0, 0, 0>>, <<0, 0, 0>>, <<0, 0, 0>>>>

\* setIdentity() on a 3x3 matrix
Identity3 == <<<<SC, 0, 0>>, <<0, SC, 0>>, <<0, 0, SC>>>>

\* determinant of a 2x2 matrix
Det2(S) == Sub(Mul(S[1][1], S[2][2]), Mul(S[1][2], S[2][1]))

\* S.inverse() of a 2x2 matrix: the adjugate over the determinant, with no
\* test of the determinant
Inverse2(S) ==
    LET det == Det2(S)
    IN  << <<Div(S[2][2], det), Div(Neg(S[1][2]), det)>>,
           <<Div(Neg(S[2][1]), det), Div(S[1][1], det)>> >>

\* a vector or matrix with a non-finite entry
HasNaN3(m) == \E i \in 1..3 : IsNaN(m[i])

MatHasNaN(A) == \E i \in 1..Rows(A) : \E j \in 1..Cols(A) : IsNaN(A[i][j])

\* ------------------------------------------------------------------------
\* config.h
\* ------------------------------------------------------------------------
ALPHA1 == 1000

ALPHA2 == 0

ALPHA3 == 1

ALPHA4 == 1000

ROBOT_VEL == 1000000

ROBOT_YAW_VEL == 10472

DETECTION_RANGE_ALPHA == 1000

DETECTION_ANGLE_SIGMA == 349

\* const double EPS = 1e-4, in update()
EPS == 1

\* ------------------------------------------------------------------------
\* Robot::landmark_range_bearing (robot.h): range and bearing of landmark l
\* seen from the pose (x, y, yaw)
\* ------------------------------------------------------------------------
landmark_range_bearing(l, x, y, yaw) ==
    LET dx == Sub(l.x, x)
        dy == Sub(l.y, y)
    IN  [range   |-> Hypot(dx, dy),
         bearing |-> Sub(Atan2(dy, dx), yaw)]

\* ------------------------------------------------------------------------
\* EKF_localization
\* ------------------------------------------------------------------------

\* constrain_angle(radian)
constrain_angle(radian) ==
    IF Lt(radian, -M_PI) THEN Add(radian, 2 * M_PI)
    ELSE IF Gt(radian, M_PI) THEN Sub(radian, 2 * M_PI)
    ELSE radian

\* the motion noise M of update(v, w, ...)
MotionNoise(v, w) ==
    << <<Sq(Add(Mul(ALPHA1, Fabs(v)), Mul(ALPHA2, Fabs(w)))), 0>>,
       <<0, Sq(Add(Mul(ALPHA3, Fabs(v)), Mul(ALPHA4, Fabs(w))))>> >>

\* Turning without the special handling of w ~ 0
TurningAlways(w) == TRUE

\* the test of update() that selects the arc motion model
Turning(w) == Gt(Fabs(w), EPS)

\* COV = G*m_cov*G.transpose() + V*M*V.transpose()
Propagate(G, V, M, cov) ==
    MatAdd(MatMul(MatMul(G, cov), Transpose(G)),
           MatMul(MatMul(V, M), Transpose(V)))

\* the branch of update() for fabs(w) > EPS: motion along an arc
ArcMotion(mu, cov, v, w, dt) ==
    LET theta == mu[3]
        th2   == Add(theta, Mul(w, dt))
        vw    == Div(v, w)
        G == << <<SC, 0, Add(Mul(Neg(vw), Cos(theta)), Mul(vw, Cos(th2)))>>,
                <<0, SC, Add(Mul(Neg(vw), Sin(theta)), Mul(vw, Sin(th2)))>>,
                <<0, 0, SC>> >>
        V == << <<Div(Add(Neg(Sin(theta)), Sin(th2)), w),
                  Add(Div(Mul(v, Sub(Sin(theta), Sin(th2))), Mul(w, w)),
                      Div(Mul(Mul(v, Cos(th2)), dt), w))>>,
                <<Div(Sub(Cos(theta), Cos(th2)), w),
                  Add(Div(Mul(Neg(v), Sub(Cos(theta), Cos(th2))), Mul(w, w)),
                      Div(Mul(Mul(v, Sin(th2)), dt), w))>>,
                <<0, dt>> >>
    IN  [MU  |-> <<Add(Sub(mu[1], Mul(vw, Sin(theta))), Mul(vw, Sin(th2))),
                   Sub(Add(mu[2], Mul(vw, Cos(theta))), Mul(vw, Cos(th2))),
                   Add(mu[3], Mul(w, dt))>>,
         COV |-> Propagate(G, V, MotionNoise(v, w), cov)]

\* the branch of update() for w ~ 0: motion along a straight line
LineMotion(mu, cov, v, w, dt) ==
    LET theta == mu[3]
        G == << <<SC, 0, Mul(Mul(Neg(v), Sin(theta)), dt)>>,
                <<0, SC, Mul(Mul(v, Cos(theta)), dt)>>,
                <<0, 0, SC>> >>
        V == << <<Mul(Cos(theta), dt), Mul(Mul(Mul(Mul(Neg(v), Sin(theta)), dt), dt), SC \div 2)>>,
                <<Mul(Sin(theta), dt), Mul(Mul(Mul(Mul(v, Cos(theta)), dt), dt), SC \div 2)>>,
                <<0, dt>> >>
    IN  [MU  |-> <<Add(mu[1], Mul(Mul(v, Cos(theta)), dt)),
                   Add(mu[2], Mul(Mul(v, Sin(theta)), dt)),
                   mu[3]>>,
         COV |-> Propagate(G, V, MotionNoise(v, w), cov)]

\* the prediction step of update(): the working MU and COV before the
\* landmark loop
Predict(mu, cov, v, w, dt) ==
    IF Turning(w) THEN ArcMotion(mu, cov, v, w, dt)
    ELSE LineMotion(mu, cov, v, w, dt)

\* Fuses without the test of the observed range
FusesAlways(l) == TRUE

\* the test of update() that decides whether landmark l is fused
Fuses(l) == Gt(Fabs(l.range), EPS)

\* the expected measurement ZHAT of landmark l at the working mean MU
Expected(MU, l) == landmark_range_bearing(l, MU[1], MU[2], MU[3])

\* the measurement Jacobian H of landmark l at the working mean MU, from
\* the expected range
JacobianAt(MU, l, range) ==
    << <<Div(Neg(Sub(l.x, MU[1])), range), Div(Neg(Sub(l.y, MU[2])), range), 0>>,
       <<Div(Sub(l.y, MU[2]), Mul(range, range)),
         Div(Neg(Sub(l.x, MU[1])), Mul(range, range)), -SC>> >>

\* the measurement Jacobian H of landmark l at the working mean MU
Jacobian(MU, l) == JacobianAt(MU, l, Expected(MU, l).range)

\* the measurement noise Q of landmark l
MeasurementNoise(l) ==
    << <<Sq(Mul(l.range, DETECTION_RANGE_ALPHA)), 0>>,
       <<0, Sq(DETECTION_ANGLE_SIGMA)>> >>

\* S = H*COV*H.transpose() + Q
InnovationOf(H, COV, l) ==
    MatAdd(MatMul(MatMul(H, COV), Transpose(H)), MeasurementNoise(l))

\* the innovation covariance S of landmark l at the working MU and COV
Innovation(MU, COV, l) == InnovationOf(Jacobian(MU, l), COV, l)

\* K = COV*H.transpose()*S.inverse()
Gain(H, COV, S) == MatMul(MatMul(COV, Transpose(H)), Inverse2(S))

\* Z - ZHAT
Residual(l, zhat) ==
    << <<Sub(l.range, zhat.range)>>, <<Sub(l.bearing, zhat.bearing)>> >>

\* MU = MU + K*(Z - ZHAT), written as MU + Kdz; MU(2) = constrain_angle(MU(2))
Corrected(MU, Kdz) ==
    <<Add(MU[1], Kdz[1][1]), Add(MU[2], Kdz[2][1]),
      constrain_angle(Add(MU[3], Kdz[3][1]))>>

\* the new MU and COV from the gain K
FuseBy(MU, COV, H, K, dz) ==
    [MU  |-> Corrected(MU, MatMul(K, dz)),
     COV |-> MatMul(MatSub(Identity3, MatMul(K, H)), COV)]

\* the new MU and COV from the expected measurement and the Jacobian H
FuseAt(MU, COV, l, zhat, H) ==
    FuseBy(MU, COV, H, Gain(H, COV, InnovationOf(H, COV, l)), Residual(l, zhat))

\* the body of the landmark loop of update() for a fused landmark
Fuse(MU, COV, l) == FuseAt(MU, COV, l, Expected(MU, l), Jacobian(MU, l))

\* one iteration of the landmark loop of update()
Correct(MU, COV, l) ==
    IF Fuses(l) THEN Fuse(MU, COV, l) ELSE [MU |-> MU, COV |-> COV]

\* ------------------------------------------------------------------------
\* The filter as a state machine.  The caller serializes its calls: no
\* operation starts while update() is running.
\* ------------------------------------------------------------------------

\* number of operations called in a run
MaxCalls == 2

\* the mean of a newly constructed filter (EKF_localization.h)
DefaultMean == <<0, 0, 0>>

\* the poses given to set_state: at LANDMARKS[0] heading along x; heading
\* pi; heading pi/2
Poses ==
    { <<100 * SC, 100 * SC, 0>>,
      <<200 * SC, 150 * SC, M_PI>>,
      <<150 * SC, 200 * SC, HALF_PI>> }

\* the commands (v, w, dt) given to update: driving straight for half a
\* second, turning in place, driving along an arc
Commands ==
    { <<ROBOT_VEL, 0, SC \div 2>>,
      <<0, ROBOT_YAW_VEL, SC>>,
      <<ROBOT_VEL, -ROBOT_YAW_VEL, SC \div 2>> }

\* the observations given to update: the landmark at (100, 100) at range
\* 0 and at range 50 straight ahead; a landmark at (200, 100) at range EPS
\* and at range 70.71, bearing pi/4
Observations ==
    { [x |-> 100 * SC, y |-> 100 * SC, range |-> 0, bearing |-> 0],
      [x |-> 100 * SC, y |-> 100 * SC, range |-> 50 * SC, bearing |-> 0],
      [x |-> 200 * SC, y |-> 100 * SC, range |-> EPS, bearing |-> 0],
      [x |-> 200 * SC, y |-> 100 * SC, range |-> 707100, bearing |-> M_PI \div 4] }

\* the landmark lists given to update: no landmark, one, or two different
\* ones in either order
LandmarkLists ==
    {<<>>} \cup {<<a>> : a \in Observations}
           \cup {q \in Observations \X Observations : q[1] # q[2]}

\* the frame when update() has not been called
NoFrame ==
    [v |-> 0, w |-> 0, landmarks |-> <<>>, dt |-> 0,
     MU |-> <<0, 0, 0>>, COV |-> Zero3, k |-> 0]

\* EKF_localization::EKF_localization(): init_ekf() zeroes the covariance
Constructed ==
    /\ m_mu = DefaultMean
    /\ m_cov = Zero3
    /\ m_dt = 0
    /\ pc = "idle"
    /\ frame = NoFrame
    /\ op = "new"
    /\ old_mu = DefaultMean
    /\ old_cov = Zero3
    /\ calls = 0

Init ==
    /\ Constructed
    /\ arg = <<>>
    /\ ret = <<>>

\* a call of an operation begins
Call(name) ==
    /\ pc = "idle"
    /\ calls < MaxCalls
    /\ calls' = calls + 1
    /\ op' = name
    /\ old_mu' = m_mu
    /\ old_cov' = m_cov

\* EKF_localization::init_ekf()
init_ekf ==
    /\ Call("init_ekf")
    /\ m_cov' = Zero3
    /\ frame' = NoFrame
    /\ UNCHANGED <<m_mu, m_dt, pc, arg, ret>>

\* set_state that also resets the covariance
set_state_reset(x, y, yaw) ==
    /\ Call("set_state")
    /\ m_mu' = <<x, y, yaw>>
    /\ m_cov' = Zero3
    /\ frame' = NoFrame
    /\ UNCHANGED <<m_dt, pc, arg, ret>>

\* EKF_localization::set_state(x, y, yaw)
set_state(x, y, yaw) ==
    /\ Call("set_state")
    /\ m_mu' = <<x, y, yaw>>
    /\ frame' = NoFrame
    /\ UNCHANGED <<m_cov, m_dt, pc, arg, ret>>

\* the frame of update() at its landmark loop, with the prediction as the
\* working MU and COV
Entered(v, w, landmarks, dt, predicted) ==
    [v |-> v, w |-> w, landmarks |-> landmarks, dt |-> dt,
     MU |-> predicted.MU, COV |-> predicted.COV, k |-> 1]

\* the frame after one iteration of the landmark loop
Advanced(corrected) ==
    [frame EXCEPT !.MU = corrected.MU, !.COV = corrected.COV, !.k = frame.k + 1]

\* update_predict that predicts in place, into m_mu and m_cov
update_predict_in_place(v, w, landmarks, dt) ==
    /\ Call("update")
    /\ m_dt' = dt
    /\ frame' = Entered(v, w, landmarks, dt, Predict(m_mu, m_cov, v, w, dt))
    /\ m_mu' = frame'.MU
    /\ m_cov' = frame'.COV
    /\ pc' = "loop"
    /\ UNCHANGED <<arg, ret>>

\* EKF_localization::update(v, w, landmarks, dt) up to its landmark loop:
\* m_dt is stored and the prediction is made into the working MU and COV
update_predict(v, w, landmarks, dt) ==
    /\ Call("update")
    /\ m_dt' = dt
    /\ frame' = Entered(v, w, landmarks, dt, Predict(m_mu, m_cov, v, w, dt))
    /\ pc' = "loop"
    /\ UNCHANGED <<m_mu, m_cov, arg, ret>>

\* one iteration of the landmark loop of update()
update_correct ==
    /\ pc = "loop"
    /\ frame.k <= Len(frame.landmarks)
    /\ frame' = Advanced(Correct(frame.MU, frame.COV, frame.landmarks[frame.k]))
    /\ UNCHANGED <<m_mu, m_cov, m_dt, pc, op, old_mu, old_cov, calls, arg, ret>>

\* the end of update(): m_mu = MU; m_cov = COV
update_store ==
    /\ pc = "loop"
    /\ frame.k > Len(frame.landmarks)
    /\ m_mu' = frame.MU
    /\ m_cov' = frame.COV
    /\ pc' = "idle"
    /\ UNCHANGED <<m_dt, frame, op, old_mu, old_cov, calls, arg, ret>>

Next ==
    \/ init_ekf
    \/ \E p \in Poses : set_state(p[1], p[2], p[3])
    \/ \E c \in Commands : \E ls \in LandmarkLists :
          update_predict(c[1], c[2], ls, c[3])
    \/ update_correct
    \/ update_store

Spec == Init /\ [][Next]_vars

\* ------------------------------------------------------------------------
\* constrain_angle applied on its own, once and then to its own result
\* ------------------------------------------------------------------------

\* the angles given to constrain_angle: the multiples of pi/8 inside
\* (-3 pi, 3 pi) and their neighbours one unit below and above
Angles == {n * (M_PI \div 8) + d : n \in -23..23, d \in {-1, 0, 1}}

InitAngle ==
    /\ Constructed
    /\ arg \in Angles
    /\ ret = <<>>

\* constrain_angle(arg)
constrain_once ==
    /\ ret = <<>>
    /\ ret' = <<constrain_angle(arg)>>
    /\ UNCHANGED <<m_mu, m_cov, m_dt, pc, frame, op, old_mu, old_cov, calls, arg>>

\* constrain_angle(constrain_angle(arg))
constrain_again ==
    /\ Len(ret) = 1
    /\ ret' = <<ret[1], constrain_angle(ret[1])>>
    /\ UNCHANGED <<m_mu, m_cov, m_dt, pc, frame, op, old_mu, old_cov, calls, arg>>

NextAngle == constrain_once \/ constrain_again

SpecAngle == InitAngle /\ [][NextAngle]_vars

\* ------------------------------------------------------------------------
\* ellipse applied on its own
\* ------------------------------------------------------------------------

\* Eigen::SelfAdjointEigenSolver<Matrix2d>::eigenvalues() of the symmetric
\* X: the two eigenvalues in increasing order
EigenValues(X) ==
    LET t == Mul(Add(X[1][1], X[2][2]), SC \div 2)
        d == Hypot(Mul(Sub(X[1][1], X[2][2]), SC \div 2), X[1][2])
    IN  <<Sub(t, d), Add(t, d)>>

\* the rotation with first row (uy, ux) / n
Rotation(ux, uy, n) ==
    <<<<Div(uy, n), Div(ux, n)>>, <<Neg(Div(ux, n)), Div(uy, n)>>>>

\* the eigenvectors from the off-diagonal entry b and e = eigenvalue 1 - X(0,0)
RotationOf(b, e) == Rotation(b, e, Hypot(b, e))

\* Eigen::SelfAdjointEigenSolver<Matrix2d>::eigenvectors() of the symmetric
\* X: column j is a unit eigenvector of eigenvalue j
EigenVectors(X) ==
    IF MatHasNaN(X) THEN <<<<NaN, NaN>>, <<NaN, NaN>>>>
    ELSE IF X[1][2] = 0 /\ X[1][1] <= X[2][2] THEN <<<<SC, 0>>, <<0, SC>>>>
    ELSE IF X[1][2] = 0 THEN <<<<0, SC>>, <<SC, 0>>>>
    ELSE RotationOf(X[1][2], Sub(EigenValues(X)[2], X[1][1]))

\* ellipse_axes with the comparison of the two axes reversed
ellipse_axes_reversed(eigenvalues, eigenvectors) ==
    LET e0 == Sqrt(eigenvalues[1])
        e1 == Sqrt(eigenvalues[2])
    IN  IF Lt(e0, e1)
        THEN [theta |-> Atan2(eigenvectors[2][1], eigenvectors[1][1]),
              major |-> e0, minor |-> e1]
        ELSE [theta |-> Atan2(eigenvectors[2][2], eigenvectors[1][2]),
              major |-> e1, minor |-> e0]

\* ellipse(): the axes and the orientation from the eigenvalues and the
\* eigenvectors
ellipse_axes(eigenvalues, eigenvectors) ==
    LET e0 == Sqrt(eigenvalues[1])
        e1 == Sqrt(eigenvalues[2])
    IN  IF Gt(e0, e1)
        THEN [theta |-> Atan2(eigenvectors[2][1], eigenvectors[1][1]),
              major |-> e0, minor |-> e1]
        ELSE [theta |-> Atan2(eigenvectors[2][2], eigenvectors[1][2]),
              major |-> e1, minor |-> e0]

\* EKF_localization::ellipse(X, major, minor, theta)
ellipse(X) == ellipse_axes(EigenValues(X), EigenVectors(X))

\* m_cov.block(0, 0, 2, 2)
Block2(m) == <<<<m[1][1], m[1][2]>>, <<m[2][1], m[2][2]>>>>

\* the entries of the matrices given to ellipse
Diagonal == {0, SC, 2 * SC, 4 * SC, 9 * SC}

OffDiagonal == {-2 * SC, -SC, 0, SC, 2 * SC}

\* the matrices given to ellipse: symmetric and positive semidefinite
Covariances ==
    { <<<<a, b>>, <<b, c>>>> : a \in Diagonal, b \in OffDiagonal, c \in Diagonal }

InitEllipse ==
    /\ Constructed
    /\ arg \in {X \in Covariances : Mul(X[1][1], X[2][2]) >= Mul(X[1][2], X[1][2])}
    /\ ret = <<>>

\* ellipse(arg, major, minor, theta)
ellipse_call ==
    /\ ret = <<>>
    /\ ret' = <<ellipse(arg)>>
    /\ UNCHANGED <<m_mu, m_cov, m_dt, pc, frame, op, old_mu, old_cov, calls, arg>>

\* EKF_localization::pose_ellipse(major, minor, theta)
pose_ellipse ==
    /\ ret = <<>>
    /\ ret' = <<ellipse(Block2(m_cov)), "pose">>
    /\ UNCHANGED <<m_mu, m_cov, m_dt, pc, frame, op, old_mu, old_cov, calls, arg>>

NextEllipse == ellipse_call \/ pose_ellipse

SpecEllipse == InitEllipse /\ [][NextEllipse]_vars

\* ------------------------------------------------------------------------
\* Properties
\* ------------------------------------------------------------------------

\* update() is at its landmark loop with a landmark left to process
AtLandmark == pc = "loop" /\ frame.k <= Len(frame.landmarks)

\* that landmark
Landmark == frame.landmarks[frame.k]

\* update() has returned
Updated == op = "update" /\ pc = "idle"

\* the observed range of l has magnitude at most EPS
Degenerate(l) == Abs(l.range) <= EPS

\* the angle in (-pi, pi] that differs from a by a multiple of 2 pi
Wrap(a) == M_PI - ((M_PI - a) % TWO_PI)

\* a in (-pi, pi]
Normalized(a) == ~IsNaN(a) /\ a > -M_PI /\ a <= M_PI

\* S has no inverse: an entry is not a number, or the determinant is 0
NotInvertible(S) == MatHasNaN(S) \/ Det2(S) = 0

\* No division of update() has a zero divisor and a non-zero dividend: the
\* expected range is 0 only at the landmark itself, its square is 0 only
\* when it is, and the determinant of a finite S is not 0.
NoInfinity ==
    (AtLandmark /\ Fuses(Landmark) /\ ~HasNaN3(frame.MU)) =>
        LET range == Expected(frame.MU, Landmark).range
            S     == Innovation(frame.MU, frame.COV, Landmark)
        IN  /\ range = 0 => (Landmark.x = frame.MU[1] /\ Landmark.y = frame.MU[2])
            /\ Mul(range, range) = 0 => range = 0
            /\ ~MatHasNaN(S) => Det2(S) # 0

\* C1: in every reachable state the stored heading lies in (-pi, pi].
C1_HeadingNormalized == Normalized(m_mu[3])

\* C2: a landmark whose innovation covariance S has no inverse is skipped:
\* the working mean and covariance are left as they were.
C2_SingularSkipped ==
    [][(AtLandmark /\ Fuses(Landmark)
          /\ NotInvertible(Innovation(frame.MU, frame.COV, Landmark)))
       => (frame'.MU = frame.MU /\ frame'.COV = frame.COV)]_vars

\* C3: an observation whose range has magnitude at most EPS leaves the
\* working mean and covariance as they were, and when every observation of
\* the call is such, update stores the pure motion prediction.
C3_DegenerateSkipped ==
    /\ [][(AtLandmark /\ Degenerate(Landmark))
          => (frame'.MU = frame.MU /\ frame'.COV = frame.COV)]_vars
    /\ [](( /\ Updated
            /\ \A i \in 1..Len(frame.landmarks) : Degenerate(frame.landmarks[i]))
          => ( /\ m_mu = Predict(old_mu, old_cov, frame.v, frame.w, frame.dt).MU
               /\ m_cov = Predict(old_mu, old_cov, frame.v, frame.w, frame.dt).COV ))

\* C3 witness: update has returned from a list of two landmarks, one at
\* range 0 and one at range EPS, after a motion that changed the mean and
\* the covariance.
C3_Witness ==
    /\ Updated
    /\ Len(frame.landmarks) = 2
    /\ \E i \in 1..2 : frame.landmarks[i].range = 0
    /\ \E i \in 1..2 : frame.landmarks[i].range = EPS
    /\ m_mu # old_mu
    /\ m_cov # old_cov

\* C4: for an angle in (-3 pi, 3 pi), constrain_angle returns a value in
\* (-pi, pi] that differs from the angle by a multiple of 2 pi, and applying
\* it again returns the same value.
C4_ConstrainAngle ==
    /\ Len(ret) >= 1 => ( /\ Normalized(ret[1])
                          /\ (arg - ret[1]) % TWO_PI = 0 )
    /\ Len(ret) = 2 => ret[2] = ret[1]

\* C5: update with w = 0, stored heading 0 and no landmarks adds exactly
\* v*dt to the stored x and leaves the stored y and heading unchanged.
C5_StraightLine ==
    ( /\ Updated
      /\ frame.w = 0
      /\ frame.dt > 0
      /\ frame.landmarks = <<>>
      /\ old_mu[3] = 0 )
    => m_mu = <<old_mu[1] + Mul(frame.v, frame.dt), old_mu[2], 0>>

\* C5 witness: such an update has returned, with v*dt = 50.
C5_Witness ==
    /\ Updated
    /\ frame.w = 0
    /\ frame.landmarks = <<>>
    /\ old_mu[3] = 0
    /\ Mul(frame.v, frame.dt) = 50 * SC
    /\ m_mu[1] = old_mu[1] + 50 * SC

\* C6: update with v = 0, |w| > EPS and no landmarks leaves the stored x and
\* y unchanged and stores the previous heading plus w*dt wrapped into
\* (-pi, pi].
C6_PureRotation ==
    ( /\ Updated
      /\ frame.v = 0
      /\ Abs(frame.w) > EPS
      /\ frame.landmarks = <<>>
      /\ ~HasNaN3(old_mu) )
    => m_mu = <<old_mu[1], old_mu[2], Wrap(old_mu[3] + Mul(frame.w, frame.dt))>>

\* C7: set_state(x, y, yaw) stores (x, y, yaw) as the mean and leaves the
\* covariance unchanged; init_ekf zeroes the covariance and leaves the mean
\* unchanged.
C7_Frames ==
    /\ [][\A p \in Poses : set_state(p[1], p[2], p[3])
                              => (m_mu' = p /\ m_cov' = m_cov)]_vars
    /\ [][init_ekf => (m_cov' = Zero3 /\ m_mu' = m_mu)]_vars

\* C7 witness: set_state has replaced the mean of a filter whose covariance
\* is not zero.
C7_Witness ==
    /\ op = "set_state"
    /\ m_mu \in Poses
    /\ m_mu # old_mu
    /\ m_cov # Zero3

\* the matrix ellipse has been applied to: arg by ellipse_call, the position
\* block of m_cov by pose_ellipse
Applied == IF Len(ret) = 1 THEN arg ELSE Block2(m_cov)

\* C8: for a covariance with non-negative eigenvalues, ellipse reports the
\* root of the larger eigenvalue as major and the root of the smaller as
\* minor, so major >= minor, and the orientation of the eigenvector column
\* of the eigenvalue reported as major: column 0 if eigenvalue[0] >
\* eigenvalue[1], else column 1.
C8_EllipseAxes ==
    (Len(ret) >= 1 /\ EigenValues(Applied)[1] >= 0) =>
        LET e0  == EigenValues(Applied)[1]
            e1  == EigenValues(Applied)[2]
            col == IF e0 > e1 THEN 1 ELSE 2
        IN  /\ ret[1].major = Sqrt(IF e0 > e1 THEN e0 ELSE e1)
            /\ ret[1].minor = Sqrt(IF e0 > e1 THEN e1 ELSE e0)
            /\ ret[1].major >= ret[1].minor
            /\ ret[1].theta = Atan2(EigenVectors(Applied)[2][col],
                                    EigenVectors(Applied)[1][col])

\* C8 witness: ellipse has been applied to diag(1, 4) and reports major 2,
\* minor 1 and orientation pi/2.
C8_Witness ==
    /\ arg = <<<<SC, 0>>, <<0, 4 * SC>>>>
    /\ ret = <<[theta |-> HALF_PI, major |-> 2 * SC, minor |-> SC]>>

\* C9: within one update call the stored mean and covariance keep their
\* values from before the call during the prediction and every landmark
\* correction, and are then replaced once by the working mean and
\* covariance.
C9_StoredAtEnd ==
    /\ [](pc = "loop" => (m_mu = old_mu /\ m_cov = old_cov))
    /\ [][pc' = "loop" => (m_mu' = m_mu /\ m_cov' = m_cov)]_vars
    /\ [][(pc = "loop" /\ pc' = "idle")
          => (m_mu' = frame.MU /\ m_cov' = frame.COV)]_vars

\* C9 witness: update has predicted and has fused two landmarks, its
\* working mean and covariance differ from the stored ones, which are still
\* those from before the call.
C9_Witness ==
    /\ pc = "loop"
    /\ Len(frame.landmarks) = 2
    /\ frame.k = 3
    /\ \A i \in 1..2 : ~Degenerate(frame.landmarks[i])
    /\ ~HasNaN3(frame.MU)
    /\ frame.MU # m_mu
    /\ frame.COV # m_cov
    /\ m_mu = old_mu
    /\ m_cov = old_cov

\* C10: whenever update fuses a landmark, the expected range at the working
\* mean, the divisor of the measurement Jacobian, is not zero.
C10_ExpectedRangeNonZero ==
    (AtLandmark /\ Fuses(Landmark)) => Expected(frame.MU, Landmark).range # 0

====
